---------------------------- MODULE Spec2Model ----------------------------
(***************************************************************************)
(* Model of src/@comprehensive/pdf-generator.js (class PDFGenerator).      *)
(*                                                                         *)
(* JavaScript values are tagged records.  A JavaScript string is a         *)
(* sequence of tokens (TLA+ strings); a template literal is the            *)
(* concatenation of its literal chunks and of the string conversion of     *)
(* each interpolated value, exactly as the engine builds it: nothing is    *)
(* escaped.  The Arabic literals of the source are written in ASCII        *)
(* transliteration, TLA+ strings being ASCII.                              *)
(***************************************************************************)
EXTENDS Integers, Sequences, FiniteSets, TLC

VARIABLES
  isGenerating,   \* this.isGenerating
  calls,          \* generateReport calls made so far, in order of invocation
  handles,        \* object URLs created so far: "live" or "revoked"
  held,           \* calls whose artifact was returned and never yet passed to downloadPDF
  downloads,      \* downloadPDF calls made so far
  saves,          \* link.click() save actions seen by the host
  today,          \* index of the current date in Dates
  input,          \* arguments of the pure operations (view specification)
  filenameOut,    \* result of generateFilename(input)
  htmlOut,        \* result of generatePrintableHTML(input)
  surface,        \* the window of printHTMLReport
  printOut        \* completion of printHTMLReport

genVars == <<isGenerating, calls, handles, held, downloads, saves, today>>
viewVars == <<input, filenameOut, htmlOut, surface, printOut>>
vars == <<isGenerating, calls, handles, held, downloads, saves, today,
          input, filenameOut, htmlOut, surface, printOut>>

-----------------------------------------------------------------------------
(* Bounds of the model *)

MaxCalls == 3
MaxDownloads == 2

-----------------------------------------------------------------------------
(* JavaScript values *)

Undefined == [t |-> "undefined"]
Null == [t |-> "null"]
TypeError == [t |-> "TypeError"]
Str(s) == [t |-> "string", s |-> s]
Num(n) == [t |-> "number", n |-> n]
Obj(f) == [t |-> "object", f |-> f]

Absent == [t |-> "absent"]
NotCalled == [t |-> "not called"]

NoProps == [k \in {} |-> Undefined]

\* A property of an object literal that is either written or left out.
Opt(k, v) == IF v = Absent THEN NoProps ELSE k :> v

\* o[k] / o.k : reading a property of undefined or null throws a TypeError,
\* a missing property reads as undefined.  An abrupt completion propagates.
Get(o, k) ==
  IF o = TypeError THEN TypeError
  ELSE IF o.t \in {"undefined", "null"} THEN TypeError
  ELSE IF o.t = "object" THEN (IF k \in DOMAIN o.f THEN o.f[k] ELSE Undefined)
  ELSE Undefined

\* ToBoolean, as used by the || operator
Truthy(v) ==
  CASE v.t = "undefined" -> FALSE
    [] v.t = "null" -> FALSE
    [] v.t = "string" -> v.s # <<>>
    [] v.t = "number" -> v.n # 0
    [] OTHER -> TRUE

Digit == <<"0", "1", "2", "3", "4", "5", "6", "7", "8", "9">>

RECURSIVE Digits(_)
Digits(n) == IF n < 10 THEN <<Digit[n + 1]>>
             ELSE Digits(n \div 10) \o <<Digit[(n % 10) + 1]>>

\* ToString, as applied to a value interpolated in a template literal
ToStr(v) ==
  CASE v.t = "undefined" -> <<"undefined">>
    [] v.t = "null" -> <<"null">>
    [] v.t = "string" -> v.s
    [] v.t = "number" -> Digits(v.n)
    [] OTHER -> <<"[object Object]">>

RECURSIVE PadStart(_, _)
PadStart(s, w) == IF Len(s) >= w THEN s ELSE PadStart(<<"0">> \o s, w)

\* new Date().toISOString().split('T')[0] : the UTC calendar date YYYY-MM-DD
ISODate(d) ==
  PadStart(Digits(d.y), 4) \o <<"-">> \o PadStart(Digits(d.m), 2)
    \o <<"-">> \o PadStart(Digits(d.d), 2)

-----------------------------------------------------------------------------
(* Inputs *)

\* Calendar dates the clock can show, in chronological order.
Dates == << [y |-> 2026, m |-> 1, d |-> 5], [y |-> 2026, m |-> 10, d |-> 31] >>

Languages == {"ar", "en", "fr", "AR"}
Supported == {"ar", "en"}

SectionOpen == "<div class=\"section\">"
DivClose == "</div>"

NameMaps ==
  { Obj([ar |-> Str(<<"nyukasl">>), en |-> Str(<<"Newcastle Disease">>)]),
    Obj([ar |-> Str(<<"nyukasl">>)]),
    Obj([ar |-> Str(<<>>), en |-> Str(<<>>)]),
    Obj([ar |-> Str(<<"a", SectionOpen, DivClose>>),
         en |-> Str(<<"b", SectionOpen, DivClose>>)]) }

FullMap == Obj([ar |-> Str(<<"nass">>), en |-> Str(<<"text">>)])

Breeds == {Absent} \cup
  { Obj([name |-> m, confidence |-> Num(92)]) : m \in NameMaps }
Weights == {Absent,
  Obj([estimated |-> Str(<<"1.8 kg">>), method |-> FullMap,
       errorMargin |-> Str(<<"10%">>)])}
Diseases == {Absent, Obj(NoProps)} \cup
  { Obj([name |-> m, probability |-> Num(70)]) : m \in NameMaps }
Treatments == {Absent,
  Obj([medication |-> FullMap, dosage |-> FullMap, duration |-> FullMap,
       warnings |-> FullMap])}

Records ==
  { Obj(Opt("overallConfidence", Num(87)) @@ Opt("breed", b) @@ Opt("weight", w)
        @@ Opt("disease", d) @@ Opt("treatment", tr)) :
      b \in Breeds, w \in Weights, d \in Diseases, tr \in Treatments }

-----------------------------------------------------------------------------
(* generateFilename, lines 79-88 *)

FilenamePrefix(language) ==
  IF language = "ar" THEN "taqrir-altashkhis-" ELSE "diagnosis-report-"

generateFilename(analysisResults, language, now) ==
  LET timestamp == ISODate(now)
      looked == Get(Get(Get(analysisResults, "disease"), "name"), language)
      diseaseName == IF Truthy(looked) THEN looked ELSE Str(<<"unknown">>)
  IN  IF looked = TypeError THEN TypeError
      ELSE Str(<<FilenamePrefix(language)>> \o ToStr(diseaseName) \o <<"-">>
               \o timestamp \o <<".pdf">>)

-----------------------------------------------------------------------------
(* generatePrintableHTML and generateHTMLSections, lines 103-226 *)

\* language === 'ar' ? a : e
Loc(language, a, e) == IF language = "ar" THEN a ELSE e

Throws(vals) == \E i \in 1..Len(vals) : vals[i] = TypeError

\* new Date().toLocaleDateString(locale): the host's rendering of the date;
\* en-US is M/D/YYYY, ar-SA is left as a tagged rendering of the same date.
toLocaleDateString(now, locale) ==
  IF locale = "en-US"
    THEN Digits(now.m) \o <<"/">> \o Digits(now.d) \o <<"/">> \o Digits(now.y)
    ELSE <<"[ar-SA]">> \o ISODate(now)

DirectionOf(language) == IF language = "ar" THEN "rtl" ELSE "ltr"

\* Mutant: the alignment is decided by a test for 'en'.
TextAlignOf_testsEn(language) == IF language = "en" THEN "left" ELSE "right"

TextAlignOf(language) == IF language = "ar" THEN "right" ELSE "left"

SectionTitles(language) ==
  << Loc(language, "naw' aldajaja", "Chicken Breed"),
     Loc(language, "alwazn altaqdiri", "Estimated Weight"),
     Loc(language, "almarad almushtabah bih", "Suspected Disease"),
     Loc(language, "tariqat al'ilaj", "Treatment") >>

\* The values interpolated by the four content templates, in evaluation order.
SectionValues(analysisResults, language) ==
  LET breed == Get(analysisResults, "breed")
      weight == Get(analysisResults, "weight")
      disease == Get(analysisResults, "disease")
      treatment == Get(analysisResults, "treatment")
  IN << << Get(Get(breed, "name"), language), Get(breed, "confidence") >>,
        << Get(weight, "estimated"), Get(Get(weight, "method"), language),
           Get(weight, "errorMargin") >>,
        << Get(Get(disease, "name"), language), Get(disease, "probability") >>,
        << Get(Get(treatment, "medication"), language),
           Get(Get(treatment, "dosage"), language),
           Get(Get(treatment, "duration"), language),
           Get(Get(treatment, "warnings"), language) >> >>

SectionContents(v, language) ==
  << <<"<p><strong>">> \o ToStr(v[1][1]) \o <<"</strong></p>", "<p>",
        Loc(language, "nisbat althiqa:", "Confidence:"), " ">>
        \o ToStr(v[1][2]) \o <<"%</p>">>,
     <<"<p><strong>">> \o ToStr(v[2][1]) \o <<"</strong></p>", "<p>">>
        \o ToStr(v[2][2]) \o <<"</p>", "<p>",
        Loc(language, "hamish alkhata:", "Error Margin:"), " ">>
        \o ToStr(v[2][3]) \o <<"</p>">>,
     <<"<p><strong>">> \o ToStr(v[3][1]) \o <<"</strong></p>", "<p>",
        Loc(language, "nisbat alihtimal:", "Probability:"), " ">>
        \o ToStr(v[3][2]) \o <<"%</p>">>,
     <<"<p><strong>", Loc(language, "aldawa:", "Medication:"), "</strong> ">>
        \o ToStr(v[4][1]) \o
     <<"</p>", "<p><strong>", Loc(language, "aljur'a:", "Dosage:"), "</strong> ">>
        \o ToStr(v[4][2]) \o
     <<"</p>", "<p><strong>", Loc(language, "almudda:", "Duration:"), "</strong> ">>
        \o ToStr(v[4][3]) \o
     <<"</p>", "<p><strong>", Loc(language, "tahdhirat:", "Warnings:"), "</strong> ">>
        \o ToStr(v[4][4]) \o <<"</p>">> >>

\* sections.map(section => `<div class="section">...`) of lines 220-225
SectionBlock(title, content) ==
  <<SectionOpen, "<div class=\"section-title\">", title, DivClose>>
    \o content \o <<DivClose>>

RECURSIVE Join(_)
Join(seqs) == IF seqs = <<>> THEN <<>> ELSE Head(seqs) \o Join(Tail(seqs))

generateHTMLSections(analysisResults, language) ==
  LET v == SectionValues(analysisResults, language)
      titles == SectionTitles(language)
      contents == SectionContents(v, language)
  IN  IF Throws(Join(v)) THEN TypeError
      ELSE Str(Join([i \in 1..4 |-> SectionBlock(titles[i], contents[i])]))

ReportTitle(language) ==
  Loc(language, "taqrir altashkhis alshamil", "Comprehensive Diagnosis Report")

\* The template literal of lines 107-182 around its interpolated values.
PrintableTemplate(direction, textAlign, language, now, confidence, sections) ==
  <<"<!DOCTYPE html>", "<html dir=\"", direction, "\" lang=\"", language,
    "\">", "<head>", "<meta charset=\"UTF-8\">",
    "<title>", ReportTitle(language), "</title>",
    "<style>", "body {", "direction: ", direction, ";",
    "text-align: ", textAlign, ";", "}",
    ".header {", "text-align: ", "center", ";", "}",
    ".section {", "}", ".section-title {", "}",
    ".confidence {", "text-align: ", "center", ";", "}", ".warning {", "}",
    "@media print {", "}", "</style>", "</head>", "<body>",
    "<div class=\"header\">", "<h1>", ReportTitle(language), "</h1>",
    "<p>", Loc(language, "nizam tashkhis sihat aldajaj",
               "AI-Powered Chicken Health Diagnosis System"), "</p>", "<p>">>
  \o toLocaleDateString(now, Loc(language, "ar-SA", "en-US")) \o
  <<"</p>", DivClose, "<div class=\"confidence\">", "<h3>",
    Loc(language, "muashir althiqa al'am", "Overall Confidence Indicator"),
    "</h3>", "<h2>">> \o ToStr(confidence) \o <<"%", "</h2>", DivClose,
    "<div class=\"warning\">", "<strong>",
    Loc(language, "mulahaza hamma:", "Important Note:"), "</strong>",
    Loc(language, "hadhihi alnatayij istirshadiya",
                  "These results are indicative"), DivClose>>
  \o sections \o <<"</body>", "</html>">>

generatePrintableHTML(analysisResults, language, now) ==
  LET direction == DirectionOf(language)
      textAlign == TextAlignOf(language)
      confidence == Get(analysisResults, "overallConfidence")
      sections == IF confidence = TypeError THEN TypeError
                  ELSE generateHTMLSections(analysisResults, language)
  IN  IF sections = TypeError THEN TypeError
      ELSE Str(PrintableTemplate(direction, textAlign, language, now,
                                 confidence, sections.s))

\* Readers of a rendered document
Count(s, tok) == Cardinality({ k \in 1..Len(s) : s[k] = tok })

\* the token that follows the first occurrence of tok
After(s, tok) ==
  LET i == CHOOSE k \in 1..Len(s) : s[k] = tok /\ \A j \in 1..(k - 1) : s[j] # tok
  IN  s[i + 1]

\* titles of the section blocks of a document, in document order
SectionTitlesIn(s) ==
  LET idx == { k \in 1..(Len(s) - 2) : s[k] = SectionOpen }
      nth(i) == CHOOSE k \in idx : Cardinality({ j \in idx : j <= k }) = i
  IN  [i \in 1..Cardinality(idx) |-> s[nth(i) + 2]]

-----------------------------------------------------------------------------
(* printHTMLReport, lines 228-238 *)

BlankWindow ==
  [t |-> "window", written |-> <<>>, closed |-> FALSE, onload |-> FALSE,
   loaded |-> FALSE, printed |-> 0]

\* Mutant: a popup that was blocked is skipped without a word.
printHTMLReport_nullChecked(analysisResults, language, now, opened) ==
  LET htmlContent == generatePrintableHTML(analysisResults, language, now)
  IN  IF opened = Null THEN [out |-> Undefined, surface |-> opened]
      ELSE IF htmlContent = TypeError THEN [out |-> TypeError, surface |-> opened]
      ELSE [out |-> Undefined,
            surface |-> [opened EXCEPT !.written = htmlContent.s,
                                       !.closed = TRUE, !.onload = TRUE]]

\* opened is what window.open('', '_blank') returned: a window, or null when
\* the host blocks the popup.  The result is the completion of the call
\* (undefined on a normal return, the error when it throws) and the surface.
printHTMLReport(analysisResults, language, now, opened) ==
  LET printableWindow == opened
      htmlContent == generatePrintableHTML(analysisResults, language, now)
  IN  IF htmlContent = TypeError
        THEN [out |-> TypeError, surface |-> printableWindow]
      ELSE IF Get(printableWindow, "document") = TypeError
        THEN [out |-> TypeError, surface |-> printableWindow]
      ELSE [out |-> Undefined,
            surface |-> [printableWindow EXCEPT !.written = htmlContent.s,
                                                !.closed = TRUE,
                                                !.onload = TRUE]]

-----------------------------------------------------------------------------
(* generateReport and simulatePDFGeneration, lines 7-77 *)

ConflictError == [t |-> "Error", message |-> "PDF generation already in progress"]

\* Records handed to generateReport: a complete one and one without disease.
GenRecords ==
  { Obj([overallConfidence |-> Num(87),
         disease |-> Obj([name |-> Obj([ar |-> Str(<<"nyukasl">>),
                                        en |-> Str(<<"Newcastle Disease">>)]),
                          probability |-> Num(70)])]),
    Obj([overallConfidence |-> Num(87)]) }

\* The language argument; undefined stands for an omitted argument.
LanguageArgs == {Str(<<"ar">>), Str(<<"en">>), Undefined}

\* language = 'ar' : the default parameter of line 7
DefaultLanguage(arg) == IF arg = Undefined THEN "ar" ELSE arg.s[1]

\* Mutant: the guard of line 8 is missing.
generateReport_enter_unguarded(flag) == [accepted |-> TRUE, flag |-> TRUE]

\* Mutant: the guard sits inside the try block, so a rejected call runs the
\* finally block too.
generateReport_enter_rejectClears(flag) ==
  IF flag THEN [accepted |-> FALSE, flag |-> FALSE]
  ELSE [accepted |-> TRUE, flag |-> TRUE]

\* Lines 8-12: the guard and the setting of the flag.
generateReport_enter(flag) ==
  IF flag THEN [accepted |-> FALSE, flag |-> flag]
  ELSE [accepted |-> TRUE, flag |-> TRUE]

\* Mutant: the flag is cleared after the await instead of in a finally block.
generateReport_finally_onSuccess(settled) == settled = TypeError

\* Lines 18-20: the finally block, whatever the awaited promise settled to.
generateReport_finally(settled) == FALSE

generatePDFContent(analysisResults, language) ==
  Str(<<"%PDF-1.4", "1 0 obj", "2 0 obj", "3 0 obj", "4 0 obj", "stream", "BT",
        "(", ReportTitle(language), ") Tj", "ET", "endstream", "xref", "trailer",
        "%%EOF">>)

\* Lines 27-35, run when the delay of line 25 is over.  url is the object URL
\* that URL.createObjectURL would hand out next.  The object literal is
\* evaluated in order: blob, url, filename.
simulatePDFGeneration(analysisResults, language, now, url) ==
  LET pdfContent == generatePDFContent(analysisResults, language)
      blob == [parts |-> pdfContent.s, type |-> "application/pdf"]
      filename == generateFilename(analysisResults, language, now)
  IN  [created |-> <<url>>,
       value |-> IF filename = TypeError THEN TypeError
                 ELSE [t |-> "artifact", blob |-> blob, url |-> url,
                       filename |-> filename]]

\* Mutant: the object URL is revoked right after the click, not by the timer.
downloadPDF_revokesAtOnce(pdfData) ==
  [clicks |-> << [href |-> pdfData.url, download |-> pdfData.filename] >>,
   revokedNow |-> {pdfData.url},
   timers |-> << [url |-> pdfData.url, state |-> "pending"] >>]

\* Lines 91-99.  The link is clicked once; the revocation is left to a timer.
downloadPDF(pdfData) ==
  [clicks |-> << [href |-> pdfData.url, download |-> pdfData.filename] >>,
   revokedNow |-> {},
   timers |-> << [url |-> pdfData.url, state |-> "pending"] >>]

-----------------------------------------------------------------------------
(* The renderer instance: window.pdfGenerator = new PDFGenerator() *)

GenInit ==
  /\ isGenerating = FALSE
  /\ calls = <<>>
  /\ handles = <<>>
  /\ held = {}
  /\ downloads = <<>>
  /\ saves = <<>>
  /\ today = 1

ViewIdle ==
  /\ input = NotCalled
  /\ filenameOut = NotCalled
  /\ htmlOut = NotCalled
  /\ surface = NotCalled
  /\ printOut = NotCalled

Init == GenInit /\ ViewIdle

\* A caller invokes generateReport: the body runs up to the await of line 25.
\* A rejected call throws before the try block, so the finally does not run.
generateReport(analysisResults, arg) ==
  LET language == DefaultLanguage(arg)
      e == generateReport_enter(isGenerating)
  IN  /\ Len(calls) < MaxCalls
      /\ isGenerating' = e.flag
      /\ calls' = Append(calls,
           [rec |-> analysisResults, lang |-> language,
            pc |-> IF e.accepted THEN "delay" ELSE "rejected",
            value |-> IF e.accepted THEN Undefined ELSE ConflictError])
      /\ UNCHANGED <<handles, held, downloads, saves, today>>
      /\ UNCHANGED viewVars

\* The timer of line 25 fires for call c: simulatePDFGeneration runs to its
\* end, the awaiting generateReport resumes in the same turn of the event loop,
\* its finally block runs and its promise settles.
DelayElapsed(c) ==
  /\ c \in 1..Len(calls)
  /\ calls[c].pc = "delay"
  /\ LET r == simulatePDFGeneration(calls[c].rec, calls[c].lang, Dates[today],
                                    Len(handles) + 1)
     IN  /\ handles' = handles \o [i \in 1..Len(r.created) |-> "live"]
         /\ calls' = [calls EXCEPT
              ![c].pc = IF r.value = TypeError THEN "rejected" ELSE "resolved",
              ![c].value = r.value]
         /\ held' = IF r.value = TypeError THEN held ELSE held \cup {c}
         /\ isGenerating' = generateReport_finally(r.value)
  /\ UNCHANGED <<downloads, saves, today>>
  /\ UNCHANGED viewVars

\* An object with url and filename that no generateReport call returned.
ForeignData == [url |-> 0, filename |-> Str(<<"other.pdf">>)]

\* What a caller can pass to downloadPDF: the artifact of any resolved call,
\* however often and whatever has become of its object URL, or another object.
DownloadInputs ==
  { calls[c].value : c \in { k \in 1..Len(calls) : calls[k].pc = "resolved" } }
    \cup {ForeignData}

downloadPDF_call(pdfData) ==
  /\ Len(downloads) < MaxDownloads
  /\ LET d == downloadPDF(pdfData)
     IN  /\ saves' = saves \o d.clicks
         /\ downloads' = downloads \o d.timers
         /\ handles' = [h \in 1..Len(handles) |->
                          IF h \in d.revokedNow THEN "revoked" ELSE handles[h]]
  /\ held' = { c \in held : calls[c].value # pdfData }
  /\ UNCHANGED <<isGenerating, calls, today>>
  /\ UNCHANGED viewVars

\* The timer of line 99 fires: URL.revokeObjectURL(pdfData.url)
revokeObjectURL_timer(d) ==
  /\ d \in 1..Len(downloads)
  /\ downloads[d].state = "pending"
  /\ downloads' = [downloads EXCEPT ![d].state = "fired"]
  /\ handles' = [h \in 1..Len(handles) |->
                   IF h = downloads[d].url THEN "revoked" ELSE handles[h]]
  /\ UNCHANGED <<isGenerating, calls, held, saves, today>>
  /\ UNCHANGED viewVars

Next ==
  \/ \E r \in GenRecords, a \in LanguageArgs : generateReport(r, a)
  \/ \E c \in 1..Len(calls) : DelayElapsed(c)
  \/ \E p \in DownloadInputs : downloadPDF_call(p)
  \/ \E d \in 1..Len(downloads) : revokeObjectURL_timer(d)

Spec == Init /\ [][Next]_vars

\* Downloads do not depend on the language of the report: the liveness of the
\* revocations is checked with the language argument left out.  The host runs
\* its timers: a revocation that was scheduled is eventually run.
FairNext ==
  \/ \E r \in GenRecords : generateReport(r, Undefined)
  \/ \E c \in 1..Len(calls) : DelayElapsed(c)
  \/ \E p \in DownloadInputs : downloadPDF_call(p)
  \/ \E d \in 1..Len(downloads) : revokeObjectURL_timer(d)

FairSpec ==
  /\ Init
  /\ [][FairNext]_vars
  /\ WF_vars(\E d \in 1..Len(downloads) : revokeObjectURL_timer(d))

-----------------------------------------------------------------------------
(* The operations on a result record, one call of each *)

ViewInit ==
  /\ GenInit
  /\ input \in [rec : Records, lang : Languages,
                now : {Dates[i] : i \in 1..Len(Dates)}]
  /\ filenameOut = NotCalled
  /\ htmlOut = NotCalled
  /\ surface = NotCalled
  /\ printOut = NotCalled

generateFilename_call ==
  /\ filenameOut = NotCalled
  /\ filenameOut' = generateFilename(input.rec, input.lang, input.now)
  /\ UNCHANGED <<input, htmlOut, surface, printOut>>
  /\ UNCHANGED genVars

generatePrintableHTML_view ==
  /\ htmlOut = NotCalled
  /\ htmlOut' = generatePrintableHTML(input.rec, input.lang, input.now)
  /\ UNCHANGED <<input, filenameOut, surface, printOut>>
  /\ UNCHANGED genVars

printHTMLReport_call(opened) ==
  /\ printOut = NotCalled
  /\ LET r == printHTMLReport(input.rec, input.lang, input.now, opened)
     IN  printOut' = r.out /\ surface' = r.surface
  /\ UNCHANGED <<input, filenameOut, htmlOut>>
  /\ UNCHANGED genVars

\* The load event of the opened window: printableWindow.onload, if set.
SurfaceLoaded ==
  /\ surface.t = "window"
  /\ ~surface.loaded
  /\ surface' = [surface EXCEPT !.loaded = TRUE,
                   !.printed = IF surface.onload THEN @ + 1 ELSE @]
  /\ UNCHANGED <<input, filenameOut, htmlOut, printOut>>
  /\ UNCHANGED genVars

ViewNext ==
  \/ generateFilename_call
  \/ generatePrintableHTML_view
  \/ \E w \in {Null, BlankWindow} : printHTMLReport_call(w)
  \/ SurfaceLoaded

ViewSpec == ViewInit /\ [][ViewNext]_vars

-----------------------------------------------------------------------------
(* Properties of generateReport (Spec) *)

Pending == { c \in 1..Len(calls) : calls[c].pc = "delay" }
Invoked == Len(calls') = Len(calls) + 1
LiveHandles == { h \in 1..Len(handles) : handles[h] = "live" }
PendingRevocations == { d \in 1..Len(downloads) : downloads[d].state = "pending" }

\* C1: a generateReport call invoked while another call of the instance is
\* pending is rejected in the step that invokes it with the conflict error: it
\* is never left waiting, it allocates nothing and hands out no artifact, and
\* a rejected call stays rejected.
C1_OverlapRejectedAtOnce ==
  [][ /\ (Invoked /\ Pending # {}) =>
           /\ calls'[Len(calls')].pc = "rejected"
           /\ calls'[Len(calls')].value = ConflictError
           /\ handles' = handles
           /\ held' = held
      /\ \A c \in 1..Len(calls) :
           calls[c].value = ConflictError =>
             calls'[c] = calls[c] /\ c \notin held' ]_vars

C1_Witness ==
  \E c \in 1..Len(calls), p \in Pending :
     p < c /\ calls[c].pc = "rejected" /\ calls[c].value = ConflictError

\* C2: when an accepted generateReport call finishes, with an artifact or with
\* the error thrown inside the generation step, the busy flag is false again,
\* and a call invoked when no call is pending is accepted, not rejected.
C2_FlagReleasedOnEveryExit ==
  [][ /\ \A c \in 1..Len(calls) :
           (calls[c].pc = "delay" /\ calls'[c].pc # "delay") => ~isGenerating'
      /\ (Invoked /\ Pending = {}) => calls'[Len(calls')].pc = "delay" ]_vars

C2_Witness ==
  \E c, n \in 1..Len(calls) :
     /\ c < n
     /\ calls[c].pc = "rejected" /\ calls[c].value = TypeError
     /\ calls[n].pc \in {"delay", "resolved"}

\* C9: at most one generateReport call is inside the generation step, the busy
\* flag is true exactly when one is, and a call rejected with the conflict
\* error leaves the flag as it was: true.
C9_SingleFlight ==
  /\ [](Cardinality(Pending) <= 1 /\ (isGenerating <=> Pending # {}))
  /\ [][ (Invoked /\ calls'[Len(calls')].value = ConflictError) =>
            (isGenerating /\ isGenerating') ]_vars

C9_Witness ==
  /\ isGenerating
  /\ Cardinality(Pending) = 1
  /\ \E c \in 1..Len(calls) : calls[c].value = ConflictError

\* C10: the live retrieval handles are never more than the artifacts returned
\* and not yet passed to downloadPDF plus the revocations still awaited, so a
\* generateReport call that fails leaves no live handle behind.
C10_NoOrphanHandle ==
  Cardinality(LiveHandles) <= Cardinality(held) + Cardinality(PendingRevocations)

\* C7: every downloadPDF call clicks the link exactly once, with the url and
\* filename it was given, and releases nothing in that step; a handle is
\* released only by the timer of a download that has clicked on its url, a
\* timer that fired has released its handle, and the revocations awaited are
\* eventually all run, so that the handle passed to a download is eventually
\* released.
C7_ClickThenRelease ==
  /\ [](/\ Len(saves) = Len(downloads)
        /\ \A d \in 1..Len(downloads) : saves[d].href = downloads[d].url
        /\ \A h \in 1..Len(handles) :
             handles[h] = "revoked" =>
               \E d \in 1..Len(downloads) :
                  downloads[d].url = h /\ downloads[d].state = "fired"
        /\ \A d \in 1..Len(downloads) :
             (downloads[d].state = "fired" /\ downloads[d].url \in 1..Len(handles))
               => handles[downloads[d].url] = "revoked")
  /\ [][ Len(downloads') > Len(downloads) =>
           \E p \in DownloadInputs :
              /\ saves' = Append(saves, [href |-> p.url, download |-> p.filename])
              /\ downloads' = Append(downloads, [url |-> p.url, state |-> "pending"])
              /\ handles' = handles ]_vars
  /\ (PendingRevocations # {}) ~> (PendingRevocations = {})

C7_Witness ==
  \E d \in 1..Len(downloads) :
     /\ downloads[d].state = "fired"
     /\ downloads[d].url \in 1..Len(handles)
     /\ handles[downloads[d].url] = "revoked"
     /\ saves[d].href = downloads[d].url
     /\ \E c \in 1..Len(calls) :
          /\ calls[c].pc = "resolved"
          /\ saves[d] = [href |-> calls[c].value.url,
                         download |-> calls[c].value.filename]

-----------------------------------------------------------------------------
(* Properties of the operations on a result record (ViewSpec) *)

IsDigit(tok) == \E i \in 1..10 : Digit[i] = tok

RECURSIVE Value(_)
Value(s) == IF s = <<>> THEN 0
            ELSE 10 * Value(SubSeq(s, 1, Len(s) - 1))
                 + ((CHOOSE i \in 1..10 : Digit[i] = s[Len(s)]) - 1)

\* s reads YYYY-MM-DD and is the date d
IsISODateOf(s, d) ==
  /\ Len(s) = 10
  /\ s[5] = "-" /\ s[8] = "-"
  /\ \A i \in {1, 2, 3, 4, 6, 7, 9, 10} : IsDigit(s[i])
  /\ Value(SubSeq(s, 1, 4)) = d.y
  /\ Value(SubSeq(s, 6, 7)) = d.m
  /\ Value(SubSeq(s, 9, 10)) = d.d

\* the record has a non-empty disease name for the language
HasDiseaseName(rec, language) ==
  /\ "disease" \in DOMAIN rec.f
  /\ "name" \in DOMAIN rec.f["disease"].f
  /\ language \in DOMAIN rec.f["disease"].f["name"].f
  /\ rec.f["disease"].f["name"].f[language].s # <<>>

\* C3: for a supported language and every result record, generateFilename
\* returns the prefix of the language, the disease name, the date as
\* YYYY-MM-DD and ".pdf", with "unknown" in place of an absent name.
C3_FilenameForEveryRecord ==
  (filenameOut # NotCalled /\ input.lang \in Supported) =>
     /\ filenameOut.t = "string"
     /\ LET f == filenameOut.s
            name == IF HasDiseaseName(input.rec, input.lang)
                      THEN input.rec.f["disease"].f["name"].f[input.lang].s
                      ELSE <<"unknown">>
        IN  /\ Len(f) = Len(name) + 13
            /\ f[1] = IF input.lang = "ar" THEN "taqrir-altashkhis-"
                                          ELSE "diagnosis-report-"
            /\ SubSeq(f, 2, Len(name) + 1) = name
            /\ f[Len(name) + 2] = "-"
            /\ IsISODateOf(SubSeq(f, Len(name) + 3, Len(name) + 12), input.now)
            /\ f[Len(f)] = ".pdf"

\* C4: the dir attribute of the document is rtl exactly when the language is
\* 'ar' and ltr otherwise, the direction of the body rule is the same, and the
\* text alignment is right with rtl and left with ltr.
C4_DirectionAndAlignment ==
  (htmlOut # NotCalled /\ htmlOut.t = "string") =>
     LET dir == After(htmlOut.s, "<html dir=\"")
         cssDir == After(htmlOut.s, "direction: ")
         align == After(htmlOut.s, "text-align: ")
     IN  /\ dir \in {"rtl", "ltr"}
         /\ dir = "rtl" <=> input.lang = "ar"
         /\ cssDir = dir
         /\ align = IF dir = "rtl" THEN "right" ELSE "left"

C4_Witness ==
  /\ htmlOut # NotCalled /\ htmlOut.t = "string"
  /\ input.lang \notin Supported
  /\ After(htmlOut.s, "<html dir=\"") = "ltr"
  /\ After(htmlOut.s, "text-align: ") = "left"

\* C5: for every result record and language the output of
\* generatePrintableHTML holds exactly four section blocks, titled breed,
\* weight, suspected disease, treatment in this order, whatever the fields of
\* the record are, missing and empty ones included.
C5_FourSectionsAlways ==
  htmlOut # NotCalled =>
     /\ htmlOut.t = "string"
     /\ Count(htmlOut.s, SectionOpen) = 4
     /\ SectionTitlesIn(htmlOut.s) = SectionTitles(input.lang)

\* the record and language of the input render to a document
Renders == generatePrintableHTML(input.rec, input.lang, input.now).t = "string"

\* C8 as stated: when window.open yields no window, printHTMLReport produces
\* no error of any kind to its caller (here for a record that renders, so that
\* the only obstacle is the missing window).
C8_BlockedIsSilent ==
  (printOut # NotCalled /\ surface = Null /\ Renders) => printOut = Undefined

\* C8, amended: when window.open yields no window, printHTMLReport writes
\* no content and never reaches print, and the call ends by throwing a
\* TypeError to its caller.
C8_BlockedThrowsTypeError ==
  /\ [](( printOut # NotCalled /\ surface.t # "window") =>
          (surface = Null /\ printOut = TypeError))
  /\ [][ surface = Null => surface' = Null ]_vars

C8_Witness ==
  /\ printOut = TypeError
  /\ surface = Null
  /\ Renders

=============================================================================
